---- MODULE Spec2Model ----
(***************************************************************************)
(* The query session of GenAIAnalyticsDashboard.js: the reducer            *)
(* (queryReducer), the component's handlers (handleQueryChange,           *)
(* handleSuggestionSelect, handleQuerySubmit, the Clear History and Rerun  *)
(* buttons, the click-outside listener), the 500 ms timer callbacks that   *)
(* deliver results, and the pure helpers (calculateGrowthRate,             *)
(* generateInsights, generateMockResults, the suggestion scorer).          *)
(*                                                                         *)
(* JavaScript strings that the code inspects (startsWith, trim, includes,  *)
(* toLowerCase, split, number parsing) are sequences of one-character      *)
(* strings; strings the code only stores and shows (error messages, the    *)
(* descriptions of the commands, action types) are TLA+ strings.           *)
(***************************************************************************)
EXTENDS Integers, Sequences, FiniteSets, TLC

\* ---------------------------------------------------------------- values

\* null, and a non-null value x of a nullable field (error, currentResults)
null == <<>>

Some(x) == <<x>>

\* ------------------------------------------------------- string literals

\* "/"
STR_SLASH ==
  <<"/">>

\* "revenue"
STR_REVENUE ==
  <<"r", "e", "v", "e", "n", "u", "e">>

\* "customer"
STR_CUSTOMER ==
  <<"c", "u", "s", "t", "o", "m", "e", "r">>

\* "product"
STR_PRODUCT ==
  <<"p", "r", "o", "d", "u", "c", "t">>

\* "Revenue "
STR_REVENUE_ ==
  <<"R", "e", "v", "e", "n", "u", "e", " ">>

\* "increased"
STR_INCREASED ==
  <<"i", "n", "c", "r", "e", "a", "s", "e", "d">>

\* "decreased"
STR_DECREASED ==
  <<"d", "e", "c", "r", "e", "a", "s", "e", "d">>

\* " by "
STR_BY ==
  <<" ", "b", "y", " ">>

\* "%"
STR_PERCENT ==
  <<"%">>

\* "Customer base shows "
STR_CUSTOMER_BASE ==
  <<"C", "u", "s", "t", "o", "m", "e", "r", " ", "b", "a", "s", "e", " ", "s", "h", "o", "w", "s", " ">>

\* "strong"
STR_STRONG ==
  <<"s", "t", "r", "o", "n", "g">>

\* "moderate"
STR_MODERATE ==
  <<"m", "o", "d", "e", "r", "a", "t", "e">>

\* " growth"
STR_GROWTH ==
  <<" ", "g", "r", "o", "w", "t", "h">>

\* "Product portfolio demonstrates consistent performance"
STR_PRODUCT_INSIGHT ==
  <<"P", "r", "o", "d", "u", "c", "t", " ", "p", "o", "r", "t", "f", "o", "l", "i", "o", " ", "d", "e", "m", "o", "n", "s", "t", "r", "a", "t", "e", "s", " ", "c", "o", "n", "s", "i", "s", "t", "e", "n", "t", " ", "p", "e", "r", "f", "o", "r", "m", "a", "n", "c", "e">>

\* "General performance remains stable"
STR_GENERAL_INSIGHT ==
  <<"G", "e", "n", "e", "r", "a", "l", " ", "p", "e", "r", "f", "o", "r", "m", "a", "n", "c", "e", " ", "r", "e", "m", "a", "i", "n", "s", " ", "s", "t", "a", "b", "l", "e">>

\* "N/A"
STR_NA ==
  <<"N", "/", "A">>

\* "Unavailable"
STR_UNAVAILABLE ==
  <<"U", "n", "a", "v", "a", "i", "l", "a", "b", "l", "e">>

\* "Infinity"
STR_INFINITY ==
  <<"I", "n", "f", "i", "n", "i", "t", "y">>

\* "-Infinity"
STR_NEG_INFINITY ==
  <<"-", "I", "n", "f", "i", "n", "i", "t", "y">>

\* "NaN"
STR_NAN ==
  <<"N", "a", "N">>

\* "0123456789"
Digits ==
  <<"0", "1", "2", "3", "4", "5", "6", "7", "8", "9">>

\* "ABCDEFGHIJKLMNOPQRSTUVWXYZ"
UpperCase ==
  <<"A", "B", "C", "D", "E", "F", "G", "H", "I", "J", "K", "L", "M", "N", "O", "P", "Q", "R", "S", "T", "U", "V", "W", "X", "Y", "Z">>

\* "abcdefghijklmnopqrstuvwxyz"
LowerCase ==
  <<"a", "b", "c", "d", "e", "f", "g", "h", "i", "j", "k", "l", "m", "n", "o", "p", "q", "r", "s", "t", "u", "v", "w", "x", "y", "z">>

\* the characters trim() and the /\s+/ of split() treat as white space
WhiteSpace == {" ", "\t"}

\* AI_SUGGESTIONS: the phrases of free-text mode, in the order of the source
AI_SUGGESTIONS ==
  << \* Top performing products this quarter
     <<"T", "o", "p", " ", "p", "e", "r", "f", "o", "r", "m", "i", "n", "g", " ", "p", "r", "o", "d", "u", "c", "t", "s", " ", "t", "h", "i", "s", " ", "q", "u", "a", "r", "t", "e", "r">>,
     \* Sales conversion rate by channel
     <<"S", "a", "l", "e", "s", " ", "c", "o", "n", "v", "e", "r", "s", "i", "o", "n", " ", "r", "a", "t", "e", " ", "b", "y", " ", "c", "h", "a", "n", "n", "e", "l">>,
     \* Market share analysis in key regions
     <<"M", "a", "r", "k", "e", "t", " ", "s", "h", "a", "r", "e", " ", "a", "n", "a", "l", "y", "s", "i", "s", " ", "i", "n", " ", "k", "e", "y", " ", "r", "e", "g", "i", "o", "n", "s">>,
     \* Operational efficiency metrics
     <<"O", "p", "e", "r", "a", "t", "i", "o", "n", "a", "l", " ", "e", "f", "f", "i", "c", "i", "e", "n", "c", "y", " ", "m", "e", "t", "r", "i", "c", "s">>,
     \* Seasonal trends impact on business
     <<"S", "e", "a", "s", "o", "n", "a", "l", " ", "t", "r", "e", "n", "d", "s", " ", "i", "m", "p", "a", "c", "t", " ", "o", "n", " ", "b", "u", "s", "i", "n", "e", "s", "s">>,
     \* Monthly revenue breakdown by product category
     <<"M", "o", "n", "t", "h", "l", "y", " ", "r", "e", "v", "e", "n", "u", "e", " ", "b", "r", "e", "a", "k", "d", "o", "w", "n", " ", "b", "y", " ", "p", "r", "o", "d", "u", "c", "t", " ", "c", "a", "t", "e", "g", "o", "r", "y">>,
     \* Year-over-year revenue growth analysis
     <<"Y", "e", "a", "r", "-", "o", "v", "e", "r", "-", "y", "e", "a", "r", " ", "r", "e", "v", "e", "n", "u", "e", " ", "g", "r", "o", "w", "t", "h", " ", "a", "n", "a", "l", "y", "s", "i", "s">>,
     \* Revenue forecast for next quarter
     <<"R", "e", "v", "e", "n", "u", "e", " ", "f", "o", "r", "e", "c", "a", "s", "t", " ", "f", "o", "r", " ", "n", "e", "x", "t", " ", "q", "u", "a", "r", "t", "e", "r">>,
     \* Impact of pricing changes on revenue
     <<"I", "m", "p", "a", "c", "t", " ", "o", "f", " ", "p", "r", "i", "c", "i", "n", "g", " ", "c", "h", "a", "n", "g", "e", "s", " ", "o", "n", " ", "r", "e", "v", "e", "n", "u", "e">>,
     \* Revenue attribution by marketing channel
     <<"R", "e", "v", "e", "n", "u", "e", " ", "a", "t", "t", "r", "i", "b", "u", "t", "i", "o", "n", " ", "b", "y", " ", "m", "a", "r", "k", "e", "t", "i", "n", "g", " ", "c", "h", "a", "n", "n", "e", "l">>,
     \* Customer lifetime value analysis
     <<"C", "u", "s", "t", "o", "m", "e", "r", " ", "l", "i", "f", "e", "t", "i", "m", "e", " ", "v", "a", "l", "u", "e", " ", "a", "n", "a", "l", "y", "s", "i", "s">>,
     \* Customer segmentation by spending patterns
     <<"C", "u", "s", "t", "o", "m", "e", "r", " ", "s", "e", "g", "m", "e", "n", "t", "a", "t", "i", "o", "n", " ", "b", "y", " ", "s", "p", "e", "n", "d", "i", "n", "g", " ", "p", "a", "t", "t", "e", "r", "n", "s">>,
     \* Churn rate analysis for premium customers
     <<"C", "h", "u", "r", "n", " ", "r", "a", "t", "e", " ", "a", "n", "a", "l", "y", "s", "i", "s", " ", "f", "o", "r", " ", "p", "r", "e", "m", "i", "u", "m", " ", "c", "u", "s", "t", "o", "m", "e", "r", "s">>,
     \* New vs returning customer revenue
     <<"N", "e", "w", " ", "v", "s", " ", "r", "e", "t", "u", "r", "n", "i", "n", "g", " ", "c", "u", "s", "t", "o", "m", "e", "r", " ", "r", "e", "v", "e", "n", "u", "e">>,
     \* Customer acquisition cost trends
     <<"C", "u", "s", "t", "o", "m", "e", "r", " ", "a", "c", "q", "u", "i", "s", "i", "t", "i", "o", "n", " ", "c", "o", "s", "t", " ", "t", "r", "e", "n", "d", "s">>,
     \* Sales performance by region
     <<"S", "a", "l", "e", "s", " ", "p", "e", "r", "f", "o", "r", "m", "a", "n", "c", "e", " ", "b", "y", " ", "r", "e", "g", "i", "o", "n">>,
     \* Customer retention rates
     <<"C", "u", "s", "t", "o", "m", "e", "r", " ", "r", "e", "t", "e", "n", "t", "i", "o", "n", " ", "r", "a", "t", "e", "s">>,
     \* Product revenue trends
     <<"P", "r", "o", "d", "u", "c", "t", " ", "r", "e", "v", "e", "n", "u", "e", " ", "t", "r", "e", "n", "d", "s">>,
     \* Marketing campaign effectiveness
     <<"M", "a", "r", "k", "e", "t", "i", "n", "g", " ", "c", "a", "m", "p", "a", "i", "g", "n", " ", "e", "f", "f", "e", "c", "t", "i", "v", "e", "n", "e", "s", "s">>,
     \* Quarterly financial overview
     <<"Q", "u", "a", "r", "t", "e", "r", "l", "y", " ", "f", "i", "n", "a", "n", "c", "i", "a", "l", " ", "o", "v", "e", "r", "v", "i", "e", "w">>,
     \* Competitive market analysis
     <<"C", "o", "m", "p", "e", "t", "i", "t", "i", "v", "e", " ", "m", "a", "r", "k", "e", "t", " ", "a", "n", "a", "l", "y", "s", "i", "s">> >>

\* COMMAND_SHORTCUTS as Object.entries lists it: <<token, description>>, in
\* insertion order
COMMAND_SHORTCUTS ==
  << <<<<"/", "r", "e", "v", "e", "n", "u", "e">>,
       "Detailed revenue breakdown">>,
     <<<<"/", "c", "u", "s", "t", "o", "m", "e", "r", "s">>,
       "Comprehensive customer metrics">>,
     <<<<"/", "t", "o", "p", "-", "p", "r", "o", "d", "u", "c", "t", "s">>,
       "Ranking of top-performing products">>,
     <<<<"/", "r", "e", "g", "i", "o", "n", "a", "l", "-", "p", "e", "r", "f", "o", "r", "m", "a", "n", "c", "e">>,
       "Comparative regional performance analysis">>,
     <<<<"/", "f", "o", "r", "e", "c", "a", "s", "t">>,
       "Revenue and growth prediction">> >>

\* ------------------------------------------------ JavaScript string methods

\* String.prototype.startsWith
startsWith(s, prefix) ==
  Len(s) >= Len(prefix) /\ SubSeq(s, 1, Len(prefix)) = prefix

\* String.prototype.includes
includes(s, sub) ==
  \E i \in 0..(Len(s) - Len(sub)) : SubSeq(s, i + 1, i + Len(sub)) = sub

toLowerChar(c) ==
  IF \E i \in 1..Len(UpperCase) : UpperCase[i] = c
  THEN LowerCase[CHOOSE i \in 1..Len(UpperCase) : UpperCase[i] = c]
  ELSE c

\* String.prototype.toLowerCase
toLowerCase(s) == [i \in 1..Len(s) |-> toLowerChar(s[i])]

RECURSIVE trimStart(_)
trimStart(s) ==
  IF Len(s) > 0 /\ s[1] \in WhiteSpace THEN trimStart(Tail(s)) ELSE s

RECURSIVE trimEnd(_)
trimEnd(s) ==
  IF Len(s) > 0 /\ s[Len(s)] \in WhiteSpace
  THEN trimEnd(SubSeq(s, 1, Len(s) - 1))
  ELSE s

\* String.prototype.trim
trim(s) == trimEnd(trimStart(s))

\* s.split(/\s+/): the pieces between maximal runs of white space, an empty
\* piece before a leading run and after a trailing one included
RECURSIVE splitFrom(_, _)
splitFrom(s, piece) ==
  IF Len(s) = 0 THEN <<piece>>
  ELSE IF s[1] \in WhiteSpace THEN <<piece>> \o splitFrom(trimStart(s), <<>>)
  ELSE splitFrom(Tail(s), Append(piece, s[1]))

split(s) == splitFrom(s, <<>>)

\* ------------------------------------------------------ JavaScript numbers

\* A number is [kind, h]: kind "fin" with h its value in hundredths, or
\* "inf" (Infinity), "ninf" (-Infinity), "nan" (NaN) with h = 0.
JsNum(kind, h) == [kind |-> kind, h |-> h]

isDigit(c) == \E i \in 1..Len(Digits) : Digits[i] = c

digitValue(c) == (CHOOSE i \in 1..Len(Digits) : Digits[i] = c) - 1

RECURSIVE natToString(_)
natToString(n) ==
  IF n < 10 THEN <<Digits[n + 1]>>
  ELSE natToString(n \div 10) \o <<Digits[(n % 10) + 1]>>

RECURSIVE parseNat(_)
parseNat(ds) ==
  IF Len(ds) = 0 THEN 0
  ELSE 10 * parseNat(SubSeq(ds, 1, Len(ds) - 1)) + digitValue(ds[Len(ds)])

Abs(n) == IF n < 0 THEN 0 - n ELSE n

\* (num / den * 100).toFixed(2) for integers num and den: JavaScript's
\* division does not throw; a zero divisor gives Infinity, -Infinity or NaN,
\* which toFixed renders by name. Otherwise the quotient is rounded to the
\* nearest hundredth (half away from zero) and keeps the sign of the quotient.
percentToFixed2(num, den) ==
  IF den = 0
  THEN IF num > 0 THEN STR_INFINITY
       ELSE IF num < 0 THEN STR_NEG_INFINITY
       ELSE STR_NAN
  ELSE LET a     == Abs(num)
           b     == Abs(den)
           whole == (a * 100) \div b
           rem   == (a * 100) % b
           frac  == (rem * 100) \div b
           rem2  == (rem * 100) % b
           h     == whole * 100 + frac + (IF 2 * rem2 >= b THEN 1 ELSE 0)
           neg   == num # 0 /\ ((num < 0) # (den < 0))
       IN  (IF neg THEN <<"-">> ELSE <<>>)
             \o natToString(h \div 100) \o <<".">>
             \o <<Digits[((h % 100) \div 10) + 1], Digits[(h % 10) + 1]>>

\* the text is [-]digits.dd, the form toFixed(2) writes
isFixed2(s) ==
  LET t == IF Len(s) > 0 /\ s[1] = "-" THEN Tail(s) ELSE s
  IN  /\ Len(t) >= 4
      /\ t[Len(t) - 2] = "."
      /\ \A i \in 1..Len(t) : i # Len(t) - 2 => isDigit(t[i])

\* the coercion of a string to a number (Math.abs(text), text > 0), for the
\* texts calculateGrowthRate returns: any other text is NaN
toNumber(s) ==
  IF s = STR_INFINITY THEN JsNum("inf", 0)
  ELSE IF s = STR_NEG_INFINITY THEN JsNum("ninf", 0)
  ELSE IF isFixed2(s)
  THEN LET neg == s[1] = "-"
           t   == IF neg THEN Tail(s) ELSE s
           v   == 100 * parseNat(SubSeq(t, 1, Len(t) - 3))
                    + parseNat(SubSeq(t, Len(t) - 1, Len(t)))
       IN  JsNum("fin", IF neg THEN 0 - v ELSE v)
  ELSE JsNum("nan", 0)

\* x > 0
isPositive(x) == x.kind = "inf" \/ (x.kind = "fin" /\ x.h > 0)

\* Math.abs(x)
mathAbs(x) ==
  IF x.kind = "ninf" THEN JsNum("inf", 0)
  ELSE IF x.kind = "fin" THEN JsNum("fin", Abs(x.h))
  ELSE x

\* the text of a number inside a template literal: the shortest decimal,
\* without trailing zeros
numberToString(x) ==
  IF x.kind = "inf" THEN STR_INFINITY
  ELSE IF x.kind = "ninf" THEN STR_NEG_INFINITY
  ELSE IF x.kind = "nan" THEN STR_NAN
  ELSE LET a == Abs(x.h)
           f == a % 100
       IN  (IF x.h < 0 THEN <<"-">> ELSE <<>>)
             \o natToString(a \div 100)
             \o (IF f = 0 THEN <<>>
                 ELSE IF f % 10 = 0 THEN <<".", Digits[(f \div 10) + 1]>>
                 ELSE <<".", Digits[(f \div 10) + 1], Digits[(f % 10) + 1]>>)

\* ------------------------------------------------------ growth and insights

\* an element of the data array that is null or undefined: reading its
\* revenue throws a TypeError
nullRow == [isNull |-> TRUE]

isNullRow(row) == "isNull" \in DOMAIN row

\* calculateGrowthRate relating the change to the last row, not the first
calculateGrowthRateOverLast(data) ==
  IF Len(data) < 2 THEN STR_NA
  ELSE IF isNullRow(data[1]) \/ isNullRow(data[Len(data)]) THEN STR_UNAVAILABLE
  ELSE LET firstValue == data[1].revenue
           lastValue  == data[Len(data)].revenue
       IN  percentToFixed2(lastValue - firstValue, lastValue)

\* calculateGrowthRate: "N/A" below two rows; the catch returns "Unavailable"
\* when reading a row's revenue throws; the division itself never throws
calculateGrowthRate(data) ==
  IF Len(data) < 2 THEN STR_NA
  ELSE IF isNullRow(data[1]) \/ isNullRow(data[Len(data)]) THEN STR_UNAVAILABLE
  ELSE LET firstValue == data[1].revenue
           lastValue  == data[Len(data)].revenue
       IN  percentToFixed2(lastValue - firstValue, firstValue)

STRONG_CUSTOMERS == 1500

\* insightRules: condition q.includes(keyword), in the order of the source
insightRules(results) ==
  LET growth == toNumber(results.summary.averageGrowth)
  IN  << [keyword |-> STR_REVENUE,
          insight |-> STR_REVENUE_
                        \o (IF isPositive(growth) THEN STR_INCREASED
                                                  ELSE STR_DECREASED)
                        \o STR_BY \o numberToString(mathAbs(growth))
                        \o STR_PERCENT],
         [keyword |-> STR_CUSTOMER,
          insight |-> STR_CUSTOMER_BASE
                        \o (IF results.summary.totalCustomers > STRONG_CUSTOMERS
                            THEN STR_STRONG ELSE STR_MODERATE)
                        \o STR_GROWTH],
         [keyword |-> STR_PRODUCT,
          insight |-> STR_PRODUCT_INSIGHT] >>

\* generateInsights taking the last rule that matches, not the first
generateInsightsLastMatch(query, results) ==
  LET rules   == insightRules(results)
      matched == {i \in 1..Len(rules) : includes(query, rules[i].keyword)}
  IN  IF matched = {} THEN STR_GENERAL_INSIGHT
      ELSE rules[CHOOSE i \in matched : \A j \in matched : i >= j].insight

\* generateInsights: insightRules.find takes the first rule whose condition
\* holds of the query as given (the query is not lower-cased)
generateInsights(query, results) ==
  LET rules   == insightRules(results)
      matched == {i \in 1..Len(rules) : includes(query, rules[i].keyword)}
  IN  IF matched = {} THEN STR_GENERAL_INSIGHT
      ELSE rules[CHOOSE i \in matched : \A j \in matched : i <= j].insight

baseData ==
  << [name |-> "Q1 2023", revenue |-> 450000, customers |-> 1200, products |-> 50],
     [name |-> "Q2 2023", revenue |-> 520000, customers |-> 1350, products |-> 55],
     [name |-> "Q3 2023", revenue |-> 610000, customers |-> 1500, products |-> 60],
     [name |-> "Q4 2023", revenue |-> 680000, customers |-> 1650, products |-> 65] >>

RECURSIVE sumRevenue(_)
sumRevenue(rows) ==
  IF Len(rows) = 0 THEN 0 ELSE rows[1].revenue + sumRevenue(Tail(rows))

RECURSIVE sumCustomers(_)
sumCustomers(rows) ==
  IF Len(rows) = 0 THEN 0 ELSE rows[1].customers + sumCustomers(Tail(rows))

\* generateMockResults
generateMockResults(query) ==
  [ data     |-> baseData,
    summary  |-> [ totalRevenue   |-> sumRevenue(baseData),
                   totalCustomers |-> sumCustomers(baseData),
                   averageGrowth  |-> calculateGrowthRate(baseData) ],
    insights |-> << generateInsights(query,
                      [summary |-> [ averageGrowth  |-> calculateGrowthRate(baseData),
                                     totalCustomers |-> sumCustomers(baseData) ]]) >> ]

\* ------------------------------------------------------------- suggestions

EXACT_SCORE == 10

KEYWORD_SCORE == 5

MIN_KEYWORD_LENGTH == 2

MAX_SUGGESTIONS == 7

\* command mode comparing the lower-cased token with the value as typed
commandSuggestionsAsTyped(value) ==
  SelectSeq(COMMAND_SHORTCUTS,
            LAMBDA entry : includes(toLowerCase(entry[1]), value))

\* command mode: the entries whose token contains the value, both lower-cased
commandSuggestions(value) ==
  SelectSeq(COMMAND_SHORTCUTS,
            LAMBDA entry : includes(toLowerCase(entry[1]), toLowerCase(value)))

\* the keywords of a query: its lower-cased pieces longer than two characters
queryKeywords(value) ==
  SelectSeq(split(toLowerCase(value)), LAMBDA word : Len(word) > MIN_KEYWORD_LENGTH)

\* the score of one phrase
suggestionScore(suggestion, value) ==
  LET suggestionLower == toLowerCase(suggestion)
      keywords        == queryKeywords(value)
      hits            == {k \in 1..Len(keywords) : includes(suggestionLower, keywords[k])}
  IN  (IF includes(suggestionLower, toLowerCase(value)) THEN EXACT_SCORE ELSE 0)
        + KEYWORD_SCORE * Cardinality(hits)

\* a descending sort that puts the later of two equal scores first
RECURSIVE insertByScoreTiesReversed(_, _)
insertByScoreTiesReversed(sorted, item) ==
  IF Len(sorted) = 0 THEN <<item>>
  ELSE IF sorted[1].score > item.score
  THEN <<sorted[1]>> \o insertByScoreTiesReversed(Tail(sorted), item)
  ELSE <<item>> \o sorted

\* Array.prototype.sort((a, b) => b.score - a.score): stable, descending
RECURSIVE insertByScore(_, _)
insertByScore(sorted, item) ==
  IF Len(sorted) = 0 THEN <<item>>
  ELSE IF sorted[1].score >= item.score
  THEN <<sorted[1]>> \o insertByScore(Tail(sorted), item)
  ELSE <<item>> \o sorted

RECURSIVE sortByScore(_)
sortByScore(items) ==
  IF Len(items) = 0 THEN <<>>
  ELSE insertByScore(sortByScore(SubSeq(items, 1, Len(items) - 1)), items[Len(items)])

\* free-text mode: score, drop the zeros, sort, keep the first seven
freeTextSuggestions(value) ==
  LET scoredSuggestions ==
        [i \in 1..Len(AI_SUGGESTIONS) |->
           [suggestion |-> AI_SUGGESTIONS[i],
            score      |-> suggestionScore(AI_SUGGESTIONS[i], value)]]
      filtered == sortByScore(SelectSeq(scoredSuggestions, LAMBDA item : item.score > 0))
      texts    == [i \in 1..Len(filtered) |-> filtered[i].suggestion]
  IN  SubSeq(texts, 1, IF Len(texts) < MAX_SUGGESTIONS THEN Len(texts) ELSE MAX_SUGGESTIONS)

\* the list handleQueryChange passes to setSuggestions
suggestionsFor(value) ==
  IF startsWith(value, STR_SLASH) THEN commandSuggestions(value)
  ELSE IF Len(trim(value)) > 0 THEN freeTextSuggestions(value)
  ELSE <<>>

\* ------------------------------------------------------------ queryReducer

EMPTY_QUERY_ERROR == "Query cannot be empty"

PROCESSING_ERROR == "Unable to process query. Please try again."

initialState ==
  [ queries        |-> <<>>,
    currentQuery   |-> <<>>,
    currentResults |-> null,
    isProcessing   |-> FALSE,
    error          |-> null,
    suggestionMode |-> FALSE ]

\* case 'SET_CURRENT_QUERY'
reduceSetCurrentQuery(s, action) ==
  [s EXCEPT !.currentQuery   = action.payload,
            !.suggestionMode = startsWith(action.payload, STR_SLASH),
            !.error          = null]

\* case 'SUBMIT_QUERY'
reduceSubmitQuery(s, action) ==
  [s EXCEPT !.isProcessing = TRUE,
            !.error        = null]

\* PROCESS_QUERY_SUCCESS without the spread of state.queries: the new record
\* replaces the history
reduceProcessQuerySuccessNoSpread(s, action) ==
  [s EXCEPT !.isProcessing   = FALSE,
            !.queries        = << [query     |-> s.currentQuery,
                                   timestamp |-> action.now,
                                   results   |-> action.payload] >>,
            !.currentResults = Some(action.payload),
            !.currentQuery   = <<>>,
            !.error          = null]

\* case 'PROCESS_QUERY_SUCCESS': the record takes the query text the state
\* holds when the action is reduced; action.now is what new Date() reads at
\* that moment, a second not before the last one read
reduceProcessQuerySuccess(s, action) ==
  [s EXCEPT !.isProcessing   = FALSE,
            !.queries        = Append(s.queries,
                                      [query     |-> s.currentQuery,
                                       timestamp |-> action.now,
                                       results   |-> action.payload]),
            !.currentResults = Some(action.payload),
            !.currentQuery   = <<>>,
            !.error          = null]

\* PROCESS_QUERY_FAILURE without isProcessing: false
reduceProcessQueryFailureKeepsProcessing(s, action) ==
  [s EXCEPT !.error          = Some(action.payload),
            !.currentResults = null]

\* case 'PROCESS_QUERY_FAILURE'
reduceProcessQueryFailure(s, action) ==
  [s EXCEPT !.isProcessing   = FALSE,
            !.error          = Some(action.payload),
            !.currentResults = null]

\* CLEAR_HISTORY that empties the history and leaves the displayed results
reduceClearHistoryKeepsResults(s, action) ==
  [s EXCEPT !.queries = <<>>,
            !.error   = null]

\* CLEAR_HISTORY resetting to the initial state, query text and flag included
reduceClearHistoryResetsAll(s, action) ==
  [ queries        |-> <<>>,
    currentQuery   |-> <<>>,
    currentResults |-> null,
    isProcessing   |-> FALSE,
    error          |-> null,
    suggestionMode |-> FALSE ]

\* case 'CLEAR_HISTORY'
reduceClearHistory(s, action) ==
  [s EXCEPT !.queries        = <<>>,
            !.currentResults = null,
            !.error          = null]

queryReducer(s, action) ==
  CASE action.type = "SET_CURRENT_QUERY"     -> reduceSetCurrentQuery(s, action)
    [] action.type = "SUBMIT_QUERY"          -> reduceSubmitQuery(s, action)
    [] action.type = "PROCESS_QUERY_SUCCESS" -> reduceProcessQuerySuccess(s, action)
    [] action.type = "PROCESS_QUERY_FAILURE" -> reduceProcessQueryFailure(s, action)
    [] action.type = "CLEAR_HISTORY"         -> reduceClearHistory(s, action)
    [] OTHER                                 -> s

\* ------------------------------------------------------------------ state

VARIABLES
  state,            \* the useReducer state of the component
  suggestions,      \* useState: the suggestion list
  showSuggestions,  \* useState: whether the list is shown
  timers,           \* the setTimeout callbacks not yet run, oldest first: each
                    \* with its id, the results it will dispatch (payload) and
                    \* the query text of the render that set it (query), which
                    \* is in the callback's closure and which it never reads
  nextTimerId,      \* the id the next setTimeout returns
  fired,            \* the ids of the timers whose callback has run
  clock,            \* the last reading of new Date(), in seconds
  data,             \* the argument of a calculateGrowthRate call
  growthRate        \* what that call returned, null before it

vars ==
  <<state, suggestions, showSuggestions, timers, nextTimerId, fired, clock,
    data, growthRate>>

\* the bounds of the model
MaxTimers == 2

MaxHistory == 2

MaxClock == 1

MaxRows == 3

MaxRevenue == 3

\* "/revenue"
TEXT_COMMAND ==
  <<"/", "r", "e", "v", "e", "n", "u", "e">>

\* "Quarterly financial overview"
TEXT_PHRASE ==
  <<"Q", "u", "a", "r", "t", "e", "r", "l", "y", " ", "f", "i", "n", "a", "n", "c", "i", "a", "l", " ", "o", "v", "e", "r", "v", "i", "e", "w">>

\* what the user leaves in the input box in one change event: nothing, a
\* blank, a command, a question
InputTexts == { <<>>, <<" ">>, TEXT_COMMAND, TEXT_PHRASE }

MaxWords == 2

\* the words of the typed questions: "revenue", "Revenue", "customer", "PRODUCT", "by", "churn"
Words ==
  { <<"r", "e", "v", "e", "n", "u", "e">>,
    <<"R", "e", "v", "e", "n", "u", "e">>,
    <<"c", "u", "s", "t", "o", "m", "e", "r">>,
    <<"P", "R", "O", "D", "U", "C", "T">>,
    <<"b", "y">>,
    <<"c", "h", "u", "r", "n">> }

\* the questions of exactly n words, one blank between two words
RECURSIVE WordTexts(_)
WordTexts(n) ==
  IF n = 1 THEN Words
  ELSE { text \o <<" ">> \o word : text \in WordTexts(n - 1), word \in Words }

\* texts with no word, with blanks around and between the words, with three keywords
SpecialTexts ==
  { <<>>,
    <<" ">>,
    <<" ", " ">>,
    <<" ", "r", "e", "v", "e", "n", "u", "e">>,
    <<"R", "e", "v", "e", "n", "u", "e", " ", " ", "f", "o", "r", "e", "c", "a", "s", "t", " ">>,
    <<"\t", "c", "u", "s", "t", "o", "m", "e", "r">>,
    <<"p", "r", "o", "d", "u", "c", "t", " ", "r", "e", "v", "e", "n", "u", "e", " ", "c", "u", "s", "t", "o", "m", "e", "r">> }

\* texts that start with the command prefix: "/", "/reven", "/REV", "/revenue", "/Forecast", "/x", "/r", "/-p"
CommandTexts ==
  { <<"/">>,
    <<"/", "r", "e", "v", "e", "n">>,
    <<"/", "R", "E", "V">>,
    <<"/", "r", "e", "v", "e", "n", "u", "e">>,
    <<"/", "F", "o", "r", "e", "c", "a", "s", "t">>,
    <<"/", "x">>,
    <<"/", "r">>,
    <<"/", "-", "p">> }

\* the texts typed when one query is followed from the input box to the
\* history
QueryInputs ==
  UNION { WordTexts(n) : n \in 1..MaxWords } \cup SpecialTexts \cup CommandTexts

\* suggestionsFor is a function of the text alone: its values on the texts of
\* the model, computed once
SuggestionsOfInput ==
  [value \in InputTexts \cup QueryInputs |-> suggestionsFor(value)]

Init ==
  /\ state = initialState
  /\ suggestions = <<>>
  /\ showSuggestions = FALSE
  /\ timers = <<>>
  /\ nextTimerId = 1
  /\ fired = {}
  /\ clock = 0
  /\ data = <<>>
  /\ growthRate = null

\* --------------------------------------------------------------- handlers

\* handleQueryChange(value): the input's onChange
HandleQueryChange(value) ==
  /\ state' = queryReducer(state, [type |-> "SET_CURRENT_QUERY", payload |-> value])
  /\ showSuggestions' = TRUE
  /\ suggestions' = SuggestionsOfInput[value]
  /\ UNCHANGED <<timers, nextTimerId, fired, clock, data, growthRate>>

\* handleSuggestionSelect(suggestions[i]): a click on a shown suggestion; the
\* list is rendered only when it is shown and not empty
HandleSuggestionSelect(i) ==
  /\ showSuggestions
  /\ i \in 1..Len(suggestions)
  /\ LET suggestion == suggestions[i]
         value      == IF state.suggestionMode THEN suggestion[1] ELSE suggestion
     IN  state' = queryReducer(state, [type |-> "SET_CURRENT_QUERY", payload |-> value])
  /\ suggestions' = <<>>
  /\ showSuggestions' = FALSE
  /\ UNCHANGED <<timers, nextTimerId, fired, clock, data, growthRate>>

\* handleClickOutside: a mousedown outside the input and the rendered list
HandleClickOutside ==
  /\ showSuggestions
  /\ Len(suggestions) > 0
  /\ suggestions' = <<>>
  /\ showSuggestions' = FALSE
  /\ UNCHANGED <<state, timers, nextTimerId, fired, clock, data, growthRate>>

\* SubmitBlank without its return: the failure is dispatched and the handler
\* goes on to SUBMIT_QUERY and the timer
SubmitBlankFallsThrough ==
  /\ Len(trim(state.currentQuery)) = 0
  /\ nextTimerId <= MaxTimers
  /\ Len(state.queries) + Len(timers) < MaxHistory
  /\ state' = queryReducer(
                queryReducer(state, [type |-> "PROCESS_QUERY_FAILURE",
                                     payload |-> EMPTY_QUERY_ERROR]),
                [type |-> "SUBMIT_QUERY"])
  /\ timers' = Append(timers, [id      |-> nextTimerId,
                               query   |-> state.currentQuery,
                               payload |-> generateMockResults(state.currentQuery)])
  /\ nextTimerId' = nextTimerId + 1

\* handleQuerySubmit, the branch of a blank query
SubmitBlank ==
  /\ Len(trim(state.currentQuery)) = 0
  /\ state' = queryReducer(state, [type |-> "PROCESS_QUERY_FAILURE",
                                   payload |-> EMPTY_QUERY_ERROR])
  /\ UNCHANGED <<timers, nextTimerId>>

\* handleQuerySubmit, the branch that starts processing: SUBMIT_QUERY, the
\* results computed from the query text of this moment, and a timer that will
\* dispatch PROCESS_QUERY_SUCCESS with them; nothing looks at isProcessing
SubmitAccepted ==
  /\ Len(trim(state.currentQuery)) > 0
  /\ nextTimerId <= MaxTimers
  /\ Len(state.queries) + Len(timers) < MaxHistory
  /\ state' = queryReducer(state, [type |-> "SUBMIT_QUERY"])
  /\ timers' = Append(timers, [id      |-> nextTimerId,
                               query   |-> state.currentQuery,
                               payload |-> generateMockResults(state.currentQuery)])
  /\ nextTimerId' = nextTimerId + 1

\* handleQuerySubmit: the Get Insights button, disabled while the query is ''
HandleQuerySubmit ==
  /\ Len(state.currentQuery) > 0
  /\ (SubmitBlank \/ SubmitAccepted)
  /\ UNCHANGED <<suggestions, showSuggestions, fired, clock, data, growthRate>>

\* the callback of the oldest timer: all timers wait the same 500 ms, so they
\* run in the order they were set
TimerFires ==
  /\ Len(timers) > 0
  /\ \E now \in clock..MaxClock :
       /\ state' = queryReducer(state, [type    |-> "PROCESS_QUERY_SUCCESS",
                                        payload |-> timers[1].payload,
                                        now     |-> now])
       /\ clock' = now
  /\ timers' = Tail(timers)
  /\ fired' = fired \cup {timers[1].id}
  /\ UNCHANGED <<suggestions, showSuggestions, nextTimerId, data, growthRate>>

\* Clear History that also drops the timers still waiting
ClearHistoryCancelsTimers ==
  /\ state' = queryReducer(state, [type |-> "CLEAR_HISTORY"])
  /\ timers' = <<>>
  /\ UNCHANGED <<suggestions, showSuggestions, nextTimerId, fired, clock,
                 data, growthRate>>

\* the Clear History button
ClearHistory ==
  /\ state' = queryReducer(state, [type |-> "CLEAR_HISTORY"])
  /\ UNCHANGED <<suggestions, showSuggestions, timers, nextTimerId, fired, clock,
                 data, growthRate>>

\* the Rerun button of history entry i: it dispatches PROCESS_QUERY_SUCCESS
\* with the entry's stored results
Rerun(i) ==
  /\ i \in 1..Len(state.queries)
  /\ Len(state.queries) + Len(timers) < MaxHistory
  /\ \E now \in clock..MaxClock :
       /\ state' = queryReducer(state, [type    |-> "PROCESS_QUERY_SUCCESS",
                                        payload |-> state.queries[i].results,
                                        now     |-> now])
       /\ clock' = now
  /\ UNCHANGED <<suggestions, showSuggestions, timers, nextTimerId, fired,
                 data, growthRate>>

Next ==
  \/ \E value \in InputTexts : HandleQueryChange(value)
  \/ \E i \in 1..Len(suggestions) : HandleSuggestionSelect(i)
  \/ HandleClickOutside
  \/ HandleQuerySubmit
  \/ TimerFires
  \/ ClearHistory
  \/ \E i \in 1..Len(state.queries) : Rerun(i)

Spec == Init /\ [][Next]_vars

\* a timer that was set does run
FairSpec == Spec /\ WF_vars(TimerFires)

\* ------------------------------------------- calculateGrowthRate on its own

GrowthRows ==
  {nullRow} \cup
  { [name |-> "Q", revenue |-> r, customers |-> 0, products |-> 0] : r \in 0..MaxRevenue }

GrowthInputs ==
  UNION { [1..n -> GrowthRows] : n \in 0..MaxRows }

GrowthInit ==
  /\ state = initialState
  /\ suggestions = <<>>
  /\ showSuggestions = FALSE
  /\ timers = <<>>
  /\ nextTimerId = 1
  /\ fired = {}
  /\ clock = 0
  /\ data \in GrowthInputs
  /\ growthRate = null

CallCalculateGrowthRate ==
  /\ growthRate = null
  /\ growthRate' = Some(calculateGrowthRate(data))
  /\ UNCHANGED <<state, suggestions, showSuggestions, timers, nextTimerId, fired,
                 clock, data>>

GrowthNext == CallCalculateGrowthRate

GrowthSpec == GrowthInit /\ [][GrowthNext]_vars

\* ------------------------------------------ one query, typed and submitted

\* the first change of the input box
TypeQuery(value) ==
  /\ ~showSuggestions
  /\ nextTimerId = 1
  /\ HandleQueryChange(value)

\* the first click on Get Insights that is accepted, and any rejected before
SubmitTyped ==
  /\ nextTimerId = 1
  /\ HandleQuerySubmit

OneQueryNext ==
  \/ \E value \in QueryInputs : TypeQuery(value)
  \/ SubmitTyped
  \/ TimerFires

\* a text is typed into the fresh component, submitted once, and its timer
\* runs: the suggestions and the results of every text of QueryInputs
OneQuerySpec == Init /\ [][OneQueryNext]_vars

\* ------------------------------------- a submit whose synthesizer throws

\* handleQuerySubmit when generateMockResults throws after setTimeout was
\* reached: the timer is set and the failure dispatched as well
HandleQuerySubmitFaultAfterTimer ==
  /\ Len(trim(state.currentQuery)) > 0
  /\ nextTimerId <= MaxTimers
  /\ state' = queryReducer(queryReducer(state, [type |-> "SUBMIT_QUERY"]),
                           [type    |-> "PROCESS_QUERY_FAILURE",
                            payload |-> PROCESSING_ERROR])
  /\ timers' = Append(timers, [id      |-> nextTimerId,
                               query   |-> state.currentQuery,
                               payload |-> generateMockResults(state.currentQuery)])
  /\ nextTimerId' = nextTimerId + 1
  /\ UNCHANGED <<suggestions, showSuggestions, fired, clock, data, growthRate>>

\* handleQuerySubmit when the call of generateMockResults inside the try
\* throws: SUBMIT_QUERY was dispatched before the try, the throw leaves the
\* try before setTimeout is reached, the catch dispatches
\* PROCESS_QUERY_FAILURE
HandleQuerySubmitFault ==
  /\ Len(trim(state.currentQuery)) > 0
  /\ state' = queryReducer(queryReducer(state, [type |-> "SUBMIT_QUERY"]),
                           [type    |-> "PROCESS_QUERY_FAILURE",
                            payload |-> PROCESSING_ERROR])
  /\ UNCHANGED <<suggestions, showSuggestions, timers, nextTimerId, fired, clock,
                 data, growthRate>>

FaultNext ==
  \/ Next
  \/ HandleQuerySubmitFault

FaultSpec == Init /\ [][FaultNext]_vars

\* ----------------------------------------------------------------- claims

IsPrefix(s, t) == Len(s) <= Len(t) /\ SubSeq(t, 1, Len(s)) = s

Last(s) == s[Len(s)]

isBlank(text) == Len(trim(text)) = 0

\* C1: a rerun of history entry i sets currentResults to the entry's results,
\* leaves the history exactly as it was and sets no timer.
C1_RerunKeepsHistory ==
  [][\A i \in 1..Len(state.queries) :
       Rerun(i) => /\ state'.currentResults = Some(state.queries[i].results)
                   /\ state'.queries = state.queries
                   /\ timers' = timers]_vars

\* C2: the record appended when a timer's success is applied carries the query
\* text that was current when the submit that set the timer was called.
C2_RecordHasSubmittedQuery ==
  [][TimerFires => Last(state'.queries).query = timers[1].query]_vars

\* C3: at most one synthesizer computation is in flight: a submit while one is
\* pending sets no second timer.
C3_AtMostOneTimer == Len(timers) <= 1

\* C4: suggestionMode is true exactly when currentQuery starts with "/".
C4_SuggestionModeIffSlash ==
  state.suggestionMode = startsWith(state.currentQuery, STR_SLASH)

\* C5: a submit of a blank query leaves isProcessing false, sets the error to
\* "Query cannot be empty", sets no timer and appends nothing to the history.
C5_BlankSubmitRejected ==
  [][(HandleQuerySubmit /\ isBlank(state.currentQuery))
       => /\ ~state'.isProcessing
          /\ state'.error = Some(EMPTY_QUERY_ERROR)
          /\ timers' = timers
          /\ nextTimerId' = nextTimerId
          /\ state'.queries = state.queries]_vars

\* C5 witness: a blank submit was rejected while a computation was in flight
C5_Witness ==
  /\ state.error = Some(EMPTY_QUERY_ERROR)
  /\ Len(state.currentQuery) > 0
  /\ isBlank(state.currentQuery)
  /\ Len(timers) > 0

\* C6: every step other than Clear History leaves the old history as a prefix
\* of the new one; so the history loses records only through Clear History.
C6_HistoryAppendOnly ==
  [][ClearHistory \/ IsPrefix(state.queries, state'.queries)]_vars

\* C6 witness: a record was appended to a history that already had one
C6_Witness ==
  /\ Len(state.queries) = 2
  /\ fired # {}

\* C7: every timer an accepted submit sets does run, Clear History or any
\* other action in between notwithstanding, and when it runs it appends one
\* record, with the timer's results, to the history of that moment and
\* clears isProcessing. (Timer id has been set once id < nextTimerId, and
\* that and id \in fired both stay true once true: "set leads to run" is
\* "from some moment on, set implies run".)
C7_PendingAlwaysResolves ==
  /\ \A id \in 1..MaxTimers :
       <>[](id < nextTimerId => id \in fired)
  /\ [][fired' # fired
          => /\ Len(timers) > 0
             /\ fired' = fired \cup {timers[1].id}
             /\ state'.queries = Append(state.queries, Last(state'.queries))
             /\ Last(state'.queries).results = timers[1].payload
             /\ ~state'.isProcessing]_vars

\* C7 witness: both timers have run and the history holds one record, so the
\* history was cleared before the second success was appended to it
C7_Witness ==
  /\ fired = 1..2
  /\ Len(state.queries) = 1
  /\ ~state.isProcessing

\* C8: Clear History empties the history and clears currentResults and error;
\* currentQuery, isProcessing and suggestionMode stay as they were.
C8_ClearHistoryFrame ==
  [][ClearHistory => /\ state'.queries = <<>>
                     /\ state'.currentResults = null
                     /\ state'.error = null
                     /\ state'.currentQuery = state.currentQuery
                     /\ state'.isProcessing = state.isProcessing
                     /\ state'.suggestionMode = state.suggestionMode]_vars

\* C8 witness: the history was cleared after a success, with a query typed and
\* a computation in flight
C8_Witness ==
  /\ state.queries = <<>>
  /\ fired # {}
  /\ state.isProcessing
  /\ Len(timers) > 0
  /\ Len(state.currentQuery) > 0

\* C9: isProcessing and a non-null error never hold together; a success leaves
\* error null and isProcessing false, a failure leaves isProcessing false.
C9_ProcessingExcludesError ==
  /\ [](~(state.isProcessing /\ state.error # null))
  /\ [][(TimerFires \/ \E i \in 1..Len(state.queries) : Rerun(i))
          => (state'.error = null /\ ~state'.isProcessing)]_vars
  /\ [][(HandleQuerySubmit /\ isBlank(state.currentQuery))
          => (state'.error # null /\ ~state'.isProcessing)]_vars

\* C9 witness: a failure settled while a computation was still in flight
C9_Witness ==
  /\ state.error # null
  /\ ~state.isProcessing
  /\ Len(timers) > 0

\* C10: calculateGrowthRate returns "N/A" for fewer than two rows and
\* "Unavailable" for two or more rows whose first row has revenue 0.
C10_ZeroFirstRevenueUnavailable ==
  growthRate # null
    => /\ Len(data) < 2 => growthRate = Some(STR_NA)
       /\ (Len(data) >= 2 /\ ~isNullRow(data[1]) /\ data[1].revenue = 0)
            => growthRate = Some(STR_UNAVAILABLE)

\* "Revenue increased by 51.11%"
TEXT_REVENUE_INSIGHT ==
  <<"R", "e", "v", "e", "n", "u", "e", " ", "i", "n", "c", "r", "e", "a", "s", "e", "d", " ", "b", "y", " ", "5", "1", ".", "1", "1", "%">>

\* "Customer base shows strong growth"
TEXT_CUSTOMER_INSIGHT ==
  <<"C", "u", "s", "t", "o", "m", "e", "r", " ", "b", "a", "s", "e", " ", "s", "h", "o", "w", "s", " ", "s", "t", "r", "o", "n", "g", " ", "g", "r", "o", "w", "t", "h">>

\* "Product portfolio demonstrates consistent performance"
TEXT_PRODUCT_INSIGHT ==
  <<"P", "r", "o", "d", "u", "c", "t", " ", "p", "o", "r", "t", "f", "o", "l", "i", "o", " ", "d", "e", "m", "o", "n", "s", "t", "r", "a", "t", "e", "s", " ", "c", "o", "n", "s", "i", "s", "t", "e", "n", "t", " ", "p", "e", "r", "f", "o", "r", "m", "a", "n", "c", "e">>

\* "General performance remains stable"
TEXT_FALLBACK_INSIGHT ==
  <<"G", "e", "n", "e", "r", "a", "l", " ", "p", "e", "r", "f", "o", "r", "m", "a", "n", "c", "e", " ", "r", "e", "m", "a", "i", "n", "s", " ", "s", "t", "a", "b", "l", "e">>

\* C11: a record whose query contains "revenue" in any letter case has the
\* insight "Revenue increased by 51.11%"; failing that, "customer" in any
\* letter case selects the customer sentence, and failing both, "product" the
\* product sentence.
C11_InsightMatchIgnoresCase ==
  \A k \in 1..Len(state.queries) :
    LET q       == toLowerCase(state.queries[k].query)
        insight == state.queries[k].results.insights
    IN  /\ includes(q, STR_REVENUE) => insight = <<TEXT_REVENUE_INSIGHT>>
        /\ (~includes(q, STR_REVENUE) /\ includes(q, STR_CUSTOMER))
             => insight = <<TEXT_CUSTOMER_INSIGHT>>
        /\ (~includes(q, STR_REVENUE) /\ ~includes(q, STR_CUSTOMER)
               /\ includes(q, STR_PRODUCT))
             => insight = <<TEXT_PRODUCT_INSIGHT>>

\* the insight sequence the ordered rules give a query, keywords matched as
\* the code matches them (letter for letter)
FirstMatchInsight(q, insights) ==
  /\ Len(insights) = 1
  /\ includes(q, STR_REVENUE) => insights[1] = TEXT_REVENUE_INSIGHT
  /\ (~includes(q, STR_REVENUE) /\ includes(q, STR_CUSTOMER))
       => insights[1] = TEXT_CUSTOMER_INSIGHT
  /\ (~includes(q, STR_REVENUE) /\ ~includes(q, STR_CUSTOMER)
         /\ includes(q, STR_PRODUCT))
       => insights[1] = TEXT_PRODUCT_INSIGHT
  /\ (~includes(q, STR_REVENUE) /\ ~includes(q, STR_CUSTOMER)
         /\ ~includes(q, STR_PRODUCT))
       => insights[1] = TEXT_FALLBACK_INSIGHT

\* C12: the results of every query, waiting in a timer or stored in the
\* history, hold exactly one insight: the sentence of the first of the rules
\* revenue, customer, product whose keyword the query contains, and "General
\* performance remains stable" when it contains none.
C12_FirstMatchWins ==
  /\ \A k \in 1..Len(timers) :
       FirstMatchInsight(timers[k].query, timers[k].payload.insights)
  /\ \A k \in 1..Len(state.queries) :
       FirstMatchInsight(state.queries[k].query, state.queries[k].results.insights)

\* C12 witness: a query with all three keywords, "product" first in the
\* text, got the revenue sentence
C12_Witness ==
  \E k \in 1..Len(state.queries) :
    /\ includes(state.queries[k].query, STR_PRODUCT)
    /\ includes(state.queries[k].query, STR_CUSTOMER)
    /\ includes(state.queries[k].query, STR_REVENUE)
    /\ state.queries[k].results.insights = <<TEXT_REVENUE_INSIGHT>>

\* the four quarterly rows and the growth text the claim names
TEXT_GROWTH == <<"5", "1", ".", "1", "1">>

QUARTERLY_ROWS ==
  << [name |-> "Q1 2023", revenue |-> 450000, customers |-> 1200, products |-> 50],
     [name |-> "Q2 2023", revenue |-> 520000, customers |-> 1350, products |-> 55],
     [name |-> "Q3 2023", revenue |-> 610000, customers |-> 1500, products |-> 60],
     [name |-> "Q4 2023", revenue |-> 680000, customers |-> 1650, products |-> 65] >>

FixedResult(results) ==
  /\ results.data = QUARTERLY_ROWS
  /\ results.summary.totalRevenue = 2260000
  /\ results.summary.totalCustomers = 5700
  /\ results.summary.averageGrowth = TEXT_GROWTH
  /\ results.summary.totalRevenue
       = results.data[1].revenue + results.data[2].revenue
           + results.data[3].revenue + results.data[4].revenue
  /\ results.summary.totalCustomers
       = results.data[1].customers + results.data[2].customers
           + results.data[3].customers + results.data[4].customers

\* C13: whatever the query text, the results computed at submit, stored in
\* the history and displayed carry the same four quarterly rows, totalRevenue
\* 2260000, totalCustomers 5700 (the sums over the rows) and the growth text
\* "51.11".
C13_FixedDataset ==
  /\ \A k \in 1..Len(timers) : FixedResult(timers[k].payload)
  /\ \A k \in 1..Len(state.queries) : FixedResult(state.queries[k].results)
  /\ state.currentResults # null => FixedResult(state.currentResults[1])

\* C13 witness: a result is displayed for a query that names no keyword
C13_Witness ==
  /\ state.currentResults # null
  /\ Len(state.queries) = 1
  /\ ~includes(toLowerCase(state.queries[1].query), STR_REVENUE)
  /\ ~includes(toLowerCase(state.queries[1].query), STR_CUSTOMER)
  /\ ~includes(toLowerCase(state.queries[1].query), STR_PRODUCT)
  /\ state.currentResults[1].summary.averageGrowth = TEXT_GROWTH

\* the words of a query, by position: the maximal runs without white space
WordSpans(q) ==
  { span \in (1..Len(q)) \X (1..Len(q)) :
      /\ span[1] <= span[2]
      /\ \A i \in span[1]..span[2] : q[i] \notin WhiteSpace
      /\ span[1] = 1 \/ q[span[1] - 1] \in WhiteSpace
      /\ span[2] = Len(q) \/ q[span[2] + 1] \in WhiteSpace }

\* the score the claim gives a phrase: 10 for holding the whole lower-cased
\* query, 5 for each word of the query longer than two characters it holds
PhraseScore(phrase, q) ==
  LET lower == toLowerCase(phrase)
      held  == { span \in WordSpans(q) :
                   /\ span[2] - span[1] + 1 > 2
                   /\ includes(lower, toLowerCase(SubSeq(q, span[1], span[2]))) }
  IN  (IF includes(lower, toLowerCase(q)) THEN 10 ELSE 0) + 5 * Cardinality(held)

PhraseIndex(phrase) ==
  CHOOSE i \in 1..Len(AI_SUGGESTIONS) : AI_SUGGESTIONS[i] = phrase

RankedPhrases(shown, q) ==
  LET score    == [i \in 1..Len(AI_SUGGESTIONS) |-> PhraseScore(AI_SUGGESTIONS[i], q)]
      positive == {i \in 1..Len(AI_SUGGESTIONS) : score[i] > 0}
      at       == [k \in 1..Len(shown) |-> PhraseIndex(shown[k])]
  IN  /\ \A k \in 1..Len(shown) :
           \E i \in positive : shown[k] = AI_SUGGESTIONS[i]
      /\ \A k, l \in 1..Len(shown) :
           k < l => \/ score[at[k]] > score[at[l]]
                    \/ score[at[k]] = score[at[l]] /\ at[k] < at[l]
      /\ Len(shown) <= 7
      /\ Len(shown) = 7 \/ Len(shown) = Cardinality(positive)
      /\ \A i \in positive :
           (\A k \in 1..Len(shown) : at[k] # i)
             => \A k \in 1..Len(shown) : score[i] <= score[at[k]]

\* C14: a change of the query to a text that does not start with "/" sets
\* the suggestions to phrases of positive score (10 for holding the whole
\* lower-cased query, 5 per held query word longer than two characters),
\* in non-increasing score with ties in list order, at most 7, none left out
\* that scores higher than one shown; a blank text leaves no suggestions.
C14_FreeTextRanking ==
  [][\A value \in QueryInputs :
       (TypeQuery(value) /\ ~startsWith(value, STR_SLASH))
         => IF isBlank(value)
            THEN suggestions' = <<>>
            ELSE RankedPhrases(suggestions', value)]_vars

\* C14 witness: over seven phrases score, seven are shown, scores differ
\* among them and two neighbours tie
C14_Witness ==
  /\ showSuggestions
  /\ nextTimerId = 1
  /\ ~startsWith(state.currentQuery, STR_SLASH)
  /\ Len(suggestions) = 7
  /\ Cardinality({i \in 1..Len(AI_SUGGESTIONS) :
                    PhraseScore(AI_SUGGESTIONS[i], state.currentQuery) > 0}) > 7
  /\ PhraseScore(suggestions[1], state.currentQuery)
       > PhraseScore(suggestions[7], state.currentQuery)
  /\ \E k \in 1..6 : PhraseScore(suggestions[k], state.currentQuery)
                        = PhraseScore(suggestions[k + 1], state.currentQuery)

TEXT_SLASH_REVEN == <<"/", "r", "e", "v", "e", "n">>

TEXT_SLASH_REVENUE == <<"/", "r", "e", "v", "e", "n", "u", "e">>

\* shown is the entries of COMMAND_SHORTCUTS at the indices in match, in the
\* order of the mapping
EntriesInOrder(shown, match) ==
  /\ Len(shown) = Cardinality(match)
  /\ \A i \in match :
       shown[Cardinality({j \in match : j <= i})] = COMMAND_SHORTCUTS[i]

\* C15: a change of the query to a text starting with "/" sets the
\* suggestions to exactly the command entries whose token holds the whole
\* text, letter case ignored, in the order of the mapping and without
\* truncation: "/reven" gives the "/revenue" entry alone, "/" all five.
C15_CommandSuggestions ==
  [][\A value \in QueryInputs :
       (TypeQuery(value) /\ startsWith(value, STR_SLASH))
         => /\ EntriesInOrder(suggestions',
                 {i \in 1..Len(COMMAND_SHORTCUTS) :
                    includes(toLowerCase(COMMAND_SHORTCUTS[i][1]), toLowerCase(value))})
            /\ value = TEXT_SLASH_REVEN
                 => /\ Len(suggestions') = 1
                    /\ suggestions'[1][1] = TEXT_SLASH_REVENUE
            /\ value = STR_SLASH
                 => /\ Len(suggestions') = 5
                    /\ suggestions' = COMMAND_SHORTCUTS]_vars

\* C15 witness: a command typed in capitals found its entry
C15_Witness ==
  /\ showSuggestions
  /\ nextTimerId = 1
  /\ startsWith(state.currentQuery, STR_SLASH)
  /\ state.currentQuery # toLowerCase(state.currentQuery)
  /\ Len(suggestions) = 1
  /\ includes(toLowerCase(suggestions[1][1]), toLowerCase(state.currentQuery))

\* C16: a submit whose synthesizer throws leaves error "Unable to process
\* query. Please try again.", currentResults null, isProcessing false, the
\* history as it was, and sets no timer, so that no success of this submit
\* can arrive later.
C16_FaultSettlesInFailure ==
  [][HandleQuerySubmitFault
       => /\ state'.error = Some(PROCESSING_ERROR)
          /\ state'.currentResults = null
          /\ ~state'.isProcessing
          /\ state'.queries = state.queries
          /\ timers' = timers
          /\ nextTimerId' = nextTimerId]_vars

\* C16 witness: the processing error is shown over a history that was kept
C16_Witness ==
  /\ state.error = Some(PROCESSING_ERROR)
  /\ state.currentResults = null
  /\ ~state.isProcessing
  /\ Len(state.queries) > 0

\* C17: while a timer callback is pending, isProcessing is true.
C17_ProcessingWhilePending ==
  Len(timers) > 0 => state.isProcessing

\* C18: a submit of a blank query changes only the error: currentResults,
\* isProcessing, the history, currentQuery and suggestionMode stay as they
\* were.
C18_BlankSubmitChangesOnlyError ==
  [][(HandleQuerySubmit /\ isBlank(state.currentQuery))
       => state' = [state EXCEPT !.error = Some(EMPTY_QUERY_ERROR)]]_vars

\* C19: the query of every history record is non-blank.
C19_RecordsHaveNonBlankQuery ==
  \A k \in 1..Len(state.queries) : ~isBlank(state.queries[k].query)

\* C20: when currentResults is non-null the history is non-empty and
\* currentResults is the results of its last record; so an empty history
\* has currentResults null.
C20_ResultIsLastRecords ==
  /\ state.currentResults # null
       => /\ Len(state.queries) > 0
          /\ state.currentResults = Some(Last(state.queries).results)
  /\ Len(state.queries) = 0 => state.currentResults = null

\* C20 witness: two records with different results, the later one displayed
C20_Witness ==
  /\ Len(state.queries) = 2
  /\ state.queries[1].results # state.queries[2].results
  /\ state.currentResults = Some(state.queries[2].results)

====
